---- MODULE Spec2Model ----
(***************************************************************************)
(* DocFinder (src/doc-finder/doc-finder.js): a full-text index over named  *)
(* documents kept in four store collections (contents, words, noise,      *)
(* completions) plus one in-memory noise-word set per engine process.     *)
(*                                                                         *)
(* Strings are sequences of one-character strings; string offsets are     *)
(* 0-based as in JavaScript, so offset o is element o+1 of the sequence.  *)
(* Every store operation a method awaits is one atomic step: the step     *)
(* applies the operation to the store and runs the synchronous code that  *)
(* follows the await, up to the next store operation.  Calls run in task  *)
(* slots; steps of different slots interleave freely.                     *)
(***************************************************************************)
EXTENDS Integers, Sequences, FiniteSets, TLC

VARIABLES
  contentsTable,     \* contents collection: name -> contents
  wordsTable,        \* words collection: word -> <<[name, info]...>> (fields in order)
  noiseTable,        \* noise collection: set of _id
  completionsTable,  \* completions collection: char -> list of words
  noiseWords,        \* this.noiseWords of each engine
  pc,                \* position of the call running in each task slot
  local,             \* arguments, local variables and result of that call
  calls,             \* number of calls started so far
  lastCall,          \* the call that returned last
  lastStore,         \* the store and caches as that call left them
  lastText           \* name -> text of the last addContent returned since the last clear

vars == <<contentsTable, wordsTable, noiseTable, completionsTable, noiseWords,
          pc, local, calls, lastCall, lastStore, lastText>>

store == <<contentsTable, wordsTable, noiseTable, completionsTable>>

-----------------------------------------------------------------------------
\* Bounds of the model.

NumTasks == 2             \* task slots: calls that can be in progress at once
MaxCalls == 4             \* calls started in one behaviour, one call at a time
MaxInterleavedCalls == 3  \* calls started in one behaviour when calls interleave
NumEngines == 2           \* engine processes attached to the store

Tasks == 1..NumTasks
Engines == 1..NumEngines

-----------------------------------------------------------------------------
\* Generic helpers.

Min(S) == CHOOSE x \in S : \A y \in S : x <= y
Max(S) == CHOOSE x \in S : \A y \in S : x >= y
Range(s) == {s[i] : i \in DOMAIN s}
EmptyMap == [x \in {} |-> 0]
Put(f, k, v) == [x \in (DOMAIN f) \cup {k} |-> IF x = k THEN v ELSE f[x]]

\* Array.from(new Set(s)): the first occurrence of each element, in order.
RECURSIVE Dedupe(_)
Dedupe(s) ==
  IF s = <<>> THEN <<>>
  ELSE LET r == Dedupe(SubSeq(s, 1, Len(s) - 1))
           x == s[Len(s)]
       IN  IF x \in Range(r) THEN r ELSE Append(r, x)

\* s minus the elements of set S, order kept (Set.delete keeps insertion order).
Without(s, S) == SelectSeq(s, LAMBDA x : x \notin S)

-----------------------------------------------------------------------------
\* Characters.

IsSpace(c) == c \in {" ", "\n", "\t"}
IsLowerAlpha(c) == c \in {"a", "b", "s", "c", "n", "o", "r", "t", "u"}
IsAlpha(c) == IsLowerAlpha(c) \/ c \in {"A", "B", "S"}
ToLower(c) == CASE c = "A" -> "a" [] c = "B" -> "b" [] c = "S" -> "s" [] OTHER -> c
CharCode(c) == CASE c = "a" -> 97 [] c = "b" -> 98 [] c = "s" -> 115
                 [] c = "A" -> 65 [] c = "B" -> 66 [] c = "S" -> 83
                 [] c = "c" -> 99 [] c = "n" -> 110 [] c = "o" -> 111
                 [] c = "r" -> 114 [] c = "t" -> 116 [] c = "u" -> 117
                 [] c = "'" -> 39 [] c = " " -> 32 [] c = "\n" -> 10 [] OTHER -> 9

-----------------------------------------------------------------------------
\* normalize, stem and the tokenizer.

stem(word) ==
  IF Len(word) >= 2 /\ word[Len(word) - 1] = "'" /\ word[Len(word)] = "s"
  THEN SubSeq(word, 1, Len(word) - 2)
  ELSE word

toLowerCase(word) == [i \in 1..Len(word) |-> ToLower(word[i])]

normalize(word) == SelectSeq(stem(toLowerCase(word)), IsLowerAlpha)

\* Index (1-based) of the last character of the \S+ match starting at i.
RECURSIVE MatchEnd(_, _)
MatchEnd(content, i) ==
  IF i < Len(content) /\ ~IsSpace(content[i + 1]) THEN MatchEnd(content, i + 1) ELSE i

\* WordsLowFrom with a fault: the noise words are not filtered out.
RECURSIVE WordsLowFromUnfiltered(_, _, _)
WordsLowFromUnfiltered(content, i, noise) ==
  IF i > Len(content) THEN <<>>
  ELSE IF IsSpace(content[i]) THEN WordsLowFromUnfiltered(content, i + 1, noise)
  ELSE LET e == MatchEnd(content, i)
           word == normalize(SubSeq(content, i, e))
       IN  (IF word # <<>> THEN << <<word, i - 1>> >> ELSE <<>>)
           \o WordsLowFromUnfiltered(content, e + 1, noise)

\* The exec loop of _wordsLow from position i on: <<word, offset>> pairs.
RECURSIVE WordsLowFrom(_, _, _)
WordsLowFrom(content, i, noise) ==
  IF i > Len(content) THEN <<>>
  ELSE IF IsSpace(content[i]) THEN WordsLowFrom(content, i + 1, noise)
  ELSE LET e == MatchEnd(content, i)
           word == normalize(SubSeq(content, i, e))
       IN  (IF word # <<>> /\ word \notin noise THEN << <<word, i - 1>> >> ELSE <<>>)
           \o WordsLowFrom(content, e + 1, noise)

_wordsLow(content, noise) == WordsLowFrom(content, 1, noise)

words(contentText, noise) ==
  LET pairs == _wordsLow(contentText, noise)
  IN  [k \in 1..Len(pairs) |-> pairs[k][1]]

\* index = {} inherits the properties of Object.prototype.  The only one whose
\* name a normalized word can be is constructor; its value is the function Object.
InheritedProperties == {<<"c", "o", "n", "s", "t", "r", "u", "c", "t", "o", "r">>}
ObjectFunction == <<>>

\* _makeIndex: [word, info] entries in first-occurrence order, info = <<count, offset>>.
\* For an inherited property, index[word] is truthy from the first occurrence on:
\* wordInfo is the function, wordInfo[0]++ counts nothing in the index, and
\* index[word] = wordInfo makes the function the word's own entry.
RECURSIVE IndexFold(_, _)
IndexFold(pairs, index) ==
  IF pairs = <<>> THEN index
  ELSE LET word == pairs[1][1]
           offset == pairs[1][2]
           at == {k \in DOMAIN index : index[k].word = word}
           next == IF word \in InheritedProperties
                   THEN IF at = {}
                        THEN Append(index, [word |-> word, info |-> ObjectFunction])
                        ELSE index
                   ELSE IF at = {}
                   THEN Append(index, [word |-> word, info |-> <<1, offset>>])
                   ELSE [index EXCEPT ![Min(at)].info[1] = @ + 1]
       IN  IndexFold(Tail(pairs), next)

_makeIndex(contentText, noise) == IndexFold(_wordsLow(contentText, noise), <<>>)

IndexKeys(index) == [k \in 1..Len(index) |-> index[k].word]

\* _makeCompletions: [c, words] entries in the order the characters first appear.
RECURSIVE CompletionsFold(_, _)
CompletionsFold(ws, completions) ==
  IF ws = <<>> THEN completions
  ELSE LET c == ws[1][1]
           at == {k \in DOMAIN completions : completions[k].c = c}
           next == IF at = {}
                   THEN Append(completions, [c |-> c, words |-> <<ws[1]>>])
                   ELSE [completions EXCEPT ![Min(at)].words = Append(@, ws[1])]
       IN  CompletionsFold(Tail(ws), next)

_makeCompletions(ws) == CompletionsFold(ws, <<>>)

-----------------------------------------------------------------------------
\* String methods used by OffsetResult.result and complete.

Clamp(x, lo, hi) == IF x < lo THEN lo ELSE IF x > hi THEN hi ELSE x

\* contents.lastIndexOf('\n', o)
lastIndexOf(contents, o) ==
  LET from == Clamp(o, 0, Len(contents) - 1)
      hits == {k \in 0..from : contents[k + 1] = "\n"}
  IN  IF hits = {} THEN -1 ELSE Max(hits)

\* contents.indexOf('\n', i)
indexOf(contents, i) ==
  LET hits == {k \in Clamp(i, 0, Len(contents))..(Len(contents) - 1) : contents[k + 1] = "\n"}
  IN  IF hits = {} THEN -1 ELSE Min(hits)

\* contents.substring(a, b): both ends clamped, swapped when a > b.
substring(contents, a, b) ==
  LET x == Clamp(a, 0, Len(contents))
      y == Clamp(b, 0, Len(contents))
      lo == IF x <= y THEN x ELSE y
      hi == IF x <= y THEN y ELSE x
  IN  SubSeq(contents, lo + 1, hi)

startsWith(w, prefix) ==
  Len(prefix) <= Len(w) /\ SubSeq(w, 1, Len(prefix)) = prefix

\* Array.from(S).sort((a, b) => a - b)
RECURSIVE SortedNumbers(_)
SortedNumbers(S) ==
  IF S = {} THEN <<>> ELSE <<Min(S)>> \o SortedNumbers(S \ {Min(S)})

\* OffsetResult.result: the Result [name, score, lines] for contents.
result(name, score, offsets, contents) ==
  LET starts == {lastIndexOf(contents, offsets[k]) + 1 : k \in DOMAIN offsets}
      order == SortedNumbers(starts)
  IN  [name |-> name, score |-> score,
       lines |-> [k \in 1..Len(order) |->
                    substring(contents, order[k], indexOf(contents, order[k]) + 1)]]

\* Comparison of strings by UTF-16 code unit, as sort() without a comparator and,
\* for the document names of the model, localeCompare: -1, 0 or 1.
RECURSIVE CompareStrings(_, _)
CompareStrings(u, v) ==
  IF u = <<>> /\ v = <<>> THEN 0
  ELSE IF u = <<>> THEN -1
  ELSE IF v = <<>> THEN 1
  ELSE IF CharCode(u[1]) < CharCode(v[1]) THEN -1
  ELSE IF CharCode(u[1]) > CharCode(v[1]) THEN 1
  ELSE CompareStrings(Tail(u), Tail(v))

\* Document names are "d1", "d2", ...: localeCompare orders them by their text.
NameRank(name) == CASE name = "d1" -> 1 [] name = "d2" -> 2 [] OTHER -> 3
localeCompare(n1, n2) ==
  IF NameRank(n1) < NameRank(n2) THEN -1 ELSE IF NameRank(n1) > NameRank(n2) THEN 1 ELSE 0

\* compareResults with a fault: the scores are compared the other way round.
compareResultsAscending(result1, result2) ==
  IF result1.score - result2.score # 0
  THEN result1.score - result2.score
  ELSE localeCompare(result1.name, result2.name)

compareResults(result1, result2) ==
  IF result2.score - result1.score # 0
  THEN result2.score - result1.score
  ELSE localeCompare(result1.name, result2.name)

compareWords(w1, w2) == CompareStrings(w1, w2)

\* results.sort(compareResults).  Array.prototype.sort is stable: each element is
\* inserted after the last element that does not compare greater than it.
RECURSIVE SortResults(_)
SortResults(s) ==
  IF s = <<>> THEN <<>>
  ELSE LET r == SortResults(SubSeq(s, 1, Len(s) - 1))
           x == s[Len(s)]
           at == Max({k \in 0..Len(r) : \A j \in 1..k : compareResults(r[j], x) <= 0})
       IN  SubSeq(r, 1, at) \o <<x>> \o SubSeq(r, at + 1, Len(r))

\* completions.sort(): no comparator, strings in code-unit order.
RECURSIVE SortWords(_)
SortWords(s) ==
  IF s = <<>> THEN <<>>
  ELSE LET r == SortWords(SubSeq(s, 1, Len(s) - 1))
           x == s[Len(s)]
           at == Max({k \in 0..Len(r) : \A j \in 1..k : compareWords(r[j], x) <= 0})
       IN  SubSeq(r, 1, at) \o <<x>> \o SubSeq(r, at + 1, Len(r))

-----------------------------------------------------------------------------
\* Store operations.

\* updateOne with a fault: the document of the word is replaced by one that holds
\* the field of name only.
updateOneReplacing(table, word, name, wordInfo) ==
  Put(table, word, <<[name |-> name, info |-> wordInfo]>>)

\* wordsTable.updateOne({_id: word}, {$set: {[name]: wordInfo}}, {upsert: true})
updateOne(table, word, name, wordInfo) ==
  LET old == IF word \in DOMAIN table THEN table[word] ELSE <<>>
      at == {k \in DOMAIN old : old[k].name = name}
      new == IF at = {}
             THEN Append(old, [name |-> name, info |-> wordInfo])
             ELSE [old EXCEPT ![Min(at)].info = wordInfo]
  IN  Put(table, word, new)

\* updateOne({_id: word}, {$set: {}}, {upsert: true}), when the store accepts an
\* empty $set: a document without fields is inserted if the word has none.
updateOneEmptySet(table, word) ==
  IF word \in DOMAIN table THEN table ELSE Put(table, word, <<>>)

\* collection.findOne({_id: key}): the document's value, or the default for null.
findOne(table, key, default) == IF key \in DOMAIN table THEN table[key] ELSE default

\* MergeCompletions with a fault: the lists are concatenated, duplicates kept.
MergeCompletionsKeepAll(new, previous) == new \o previous

\* The merged list _updateCompletions writes for one character.
MergeCompletions(new, previous) == Dedupe(new \o previous)

\* noiseTable.insertMany(docs), ordered: documents are inserted in order up to
\* the first duplicate _id, which fails the call.
RECURSIVE InsertedBeforeError(_, _)
InsertedBeforeError(table, a) ==
  IF a = <<>> \/ a[1] \in table THEN table
  ELSE InsertedBeforeError(table \cup {a[1]}, Tail(a))

insertManyFails(table, a) == \E k \in DOMAIN a : a[k] \in table

-----------------------------------------------------------------------------
\* Inputs of the calls.

Names == {"d1", "d2"}

TxtA == <<"a", "\n", "a", "b", " ", "a">>                               \* a / ab a   (no final newline)
TxtB == <<"a", "b", "\n">>                                              \* ab
TxtC == <<"A", "'", "s", " ", "'", "s", "\n", "b", " ", "b", "\n">>     \* A's 's / b b
TxtD == <<"a", "b", " ", "c", "o", "n", "s", "t", "r", "u", "c", "t", "o", "r", " ", "a", "\n">>
                                                                        \* ab constructor a
DocTexts == {TxtA, TxtB, TxtC}
IndexTexts == DocTexts \cup {TxtD}

NoiseTexts == {<<"a">>, <<"b", " ", "A", "'", "s">>}                     \* a ; b A's
Queries == {<<"a", "b">>, <<"a", " ", "A", "'", "s", " ", "b">>}        \* ab ; a A's b
Partials == {<<"b", " ", "a">>, <<"a", " ">>, <<"a", "'">>, <<"a", "b">>, <<>>, <<"'", "s">>}
                                                             \* "b a" ; "a " ; "a'" ; "ab" ; "" ; "'s"

-----------------------------------------------------------------------------
\* Locals of a call.

NoLocal ==
  [eng |-> 0, op |-> "none", name |-> "", text |-> <<>>, contentText |-> <<>>,
   index |-> <<>>, i |-> 0, completions |-> <<>>, previous |-> <<>>, a |-> <<>>,
   terms |-> <<>>, docs |-> <<>>, results |-> <<>>, word |-> <<>>,
   out |-> <<>>, err |-> "", message |-> <<>>]

Snapshot ==
  [contents |-> contentsTable, words |-> wordsTable, noise |-> noiseTable,
   completions |-> completionsTable, noiseWords |-> noiseWords]

Init ==
  /\ contentsTable = EmptyMap
  /\ wordsTable = EmptyMap
  /\ noiseTable = {}
  /\ completionsTable = EmptyMap
  /\ noiseWords = [e \in Engines |-> {}]
  /\ pc = [t \in Tasks |-> "idle"]
  /\ local = [t \in Tasks |-> NoLocal]
  /\ calls = 0
  /\ lastCall = [op |-> "create", name |-> "", text |-> <<>>, eng |-> 0, err |-> ""]
  /\ lastStore = [contents |-> EmptyMap, words |-> EmptyMap, noise |-> {},
                  completions |-> EmptyMap, noiseWords |-> [e \in Engines |-> {}]]
  /\ lastText = EmptyMap

\* A call can start in a free slot while fewer than max calls have started.
CanStart(t, max) == pc[t] = "idle" /\ calls < max

Begin(t, position, locals) ==
  /\ pc' = [pc EXCEPT ![t] = position]
  /\ local' = [local EXCEPT ![t] = locals]
  /\ calls' = calls + 1
  /\ UNCHANGED <<lastCall, lastStore, lastText>>

Goto(t, position, locals) ==
  /\ pc' = [pc EXCEPT ![t] = position]
  /\ local' = [local EXCEPT ![t] = locals]
  /\ UNCHANGED <<calls, lastCall, lastStore, lastText>>

-----------------------------------------------------------------------------
\* addContent(name, contentText)

\* endsWithNewline with a fault: no text counts as ending with a newline.
endsWithNewlineNever(text) == FALSE

\* contentText.endsWith('\n')
endsWithNewline(text) == text # <<>> /\ text[Len(text)] = "\n"

AddContentStart(t, e, max, name, text) ==
  /\ CanStart(t, max)
  /\ Begin(t, "saveContents",
       [NoLocal EXCEPT !.eng = e, !.op = "addContent", !.name = name, !.text = text,
          !.contentText = IF endsWithNewline(text) THEN text ELSE Append(text, "\n")])
  /\ UNCHANGED <<store, noiseWords>>

\* _saveContents: replaceOne with upsert; then _makeIndex, with the noise words
\* of the engine as they are now.
SaveContents(t) ==
  /\ pc[t] = "saveContents"
  /\ contentsTable' = Put(contentsTable, local[t].name, local[t].contentText)
  /\ LET index == _makeIndex(local[t].contentText, noiseWords[local[t].eng])
     IN  IF index = <<>>
         THEN Goto(t, "done", local[t])
         ELSE Goto(t, "saveWords", [local[t] EXCEPT !.index = index, !.i = 1])
  /\ UNCHANGED <<wordsTable, noiseTable, completionsTable, noiseWords>>

\* _saveWords: one updateOne per word of the index; after the last one,
\* _makeCompletions of the index's keys.
\* A function is no BSON value: the driver drops the field, so the update of a
\* word whose wordInfo is the function Object is {$set: {}}, which the store
\* either rejects (the call throws) or applies as an update of no field.
SaveWord(t) ==
  /\ pc[t] = "saveWords"
  /\ LET l == local[t]
         entry == l.index[l.i]
         goOn == IF l.i < Len(l.index)
                 THEN Goto(t, "saveWords", [l EXCEPT !.i = l.i + 1])
                 ELSE Goto(t, "findCompletion",
                        [l EXCEPT !.i = 1, !.completions = _makeCompletions(IndexKeys(l.index))])
     IN  IF entry.info = ObjectFunction
         THEN \/ /\ wordsTable' = wordsTable
                 /\ Goto(t, "failed", [l EXCEPT !.err = "EMPTY_SET"])
              \/ /\ wordsTable' = updateOneEmptySet(wordsTable, entry.word)
                 /\ goOn
         ELSE /\ wordsTable' = updateOne(wordsTable, entry.word, l.name, entry.info)
              /\ goOn
  /\ UNCHANGED <<contentsTable, noiseTable, completionsTable, noiseWords>>

\* _updateCompletions: findOne of the character's document ...
FindCompletion(t) ==
  /\ pc[t] = "findCompletion"
  /\ LET l == local[t]
     IN  Goto(t, "replaceCompletion",
           [l EXCEPT !.previous = findOne(completionsTable, l.completions[l.i].c, <<>>)])
  /\ UNCHANGED <<store, noiseWords>>

\* ... then replaceOne with the merged list.
ReplaceCompletion(t) ==
  /\ pc[t] = "replaceCompletion"
  /\ LET l == local[t]
         c == l.completions[l.i].c
     IN  /\ completionsTable' =
              Put(completionsTable, c, MergeCompletions(l.completions[l.i].words, l.previous))
         /\ IF l.i < Len(l.completions)
            THEN Goto(t, "findCompletion", [l EXCEPT !.i = l.i + 1, !.previous = <<>>])
            ELSE Goto(t, "done", [l EXCEPT !.previous = <<>>])
  /\ UNCHANGED <<contentsTable, wordsTable, noiseTable, noiseWords>>

-----------------------------------------------------------------------------
\* addNoiseWords(noiseText)

\* NewNoise with a fault: the words already in this.noiseWords are not left out.
NewNoiseKeepKnown(noiseText, cache) == Dedupe(words(noiseText, {}))

\* The array a: the words of noiseText that are not yet in this.noiseWords.
NewNoise(noiseText, cache) == Without(Dedupe(words(noiseText, cache)), cache)

AddNoiseWordsStart(t, e, max, text) ==
  /\ CanStart(t, max)
  /\ LET a == NewNoise(text, noiseWords[e])
         l == [NoLocal EXCEPT !.eng = e, !.op = "addNoiseWords", !.text = text, !.a = a]
     IN  IF a = <<>> THEN Begin(t, "done", l) ELSE Begin(t, "insertMany", l)
  /\ UNCHANGED <<store, noiseWords>>

\* InsertMany with a fault: the entries of the inserted words are also removed
\* from the inverted index.
InsertManyPurging(t) ==
  /\ pc[t] = "insertMany"
  /\ LET l == local[t]
     IN  /\ noiseTable' = InsertedBeforeError(noiseTable, l.a)
         /\ wordsTable' = [w \in DOMAIN wordsTable \ Range(l.a) |-> wordsTable[w]]
         /\ IF insertManyFails(noiseTable, l.a)
            THEN /\ Goto(t, "failed", [l EXCEPT !.err = "DUPLICATE_KEY"])
                 /\ UNCHANGED noiseWords
            ELSE /\ Goto(t, "done", l)
                 /\ noiseWords' = [noiseWords EXCEPT ![l.eng] = @ \cup Range(l.a)]
  /\ UNCHANGED <<contentsTable, completionsTable>>

\* insertMany(noiseDocs), then a.forEach(n => this.noiseWords.add(n)); a duplicate
\* _id makes insertMany throw after the documents before it were inserted.
InsertMany(t) ==
  /\ pc[t] = "insertMany"
  /\ LET l == local[t]
     IN  /\ noiseTable' = InsertedBeforeError(noiseTable, l.a)
         /\ IF insertManyFails(noiseTable, l.a)
            THEN /\ Goto(t, "failed", [l EXCEPT !.err = "DUPLICATE_KEY"])
                 /\ UNCHANGED noiseWords
            ELSE /\ Goto(t, "done", l)
                 /\ noiseWords' = [noiseWords EXCEPT ![l.eng] = @ \cup Range(l.a)]
  /\ UNCHANGED <<contentsTable, wordsTable, completionsTable>>

-----------------------------------------------------------------------------
\* clear()

ClearStart(t, e, max) ==
  /\ CanStart(t, max)
  /\ Begin(t, "clearCompletions", [NoLocal EXCEPT !.eng = e, !.op = "clear"])
  /\ UNCHANGED <<store, noiseWords>>

ClearCompletions(t) ==
  /\ pc[t] = "clearCompletions"
  /\ completionsTable' = EmptyMap
  /\ Goto(t, "clearContents", local[t])
  /\ UNCHANGED <<contentsTable, wordsTable, noiseTable, noiseWords>>

ClearContents(t) ==
  /\ pc[t] = "clearContents"
  /\ contentsTable' = EmptyMap
  /\ Goto(t, "clearNoise", local[t])
  /\ UNCHANGED <<wordsTable, noiseTable, completionsTable, noiseWords>>

ClearNoise(t) ==
  /\ pc[t] = "clearNoise"
  /\ noiseTable' = {}
  /\ Goto(t, "clearWords", local[t])
  /\ UNCHANGED <<contentsTable, wordsTable, completionsTable, noiseWords>>

ClearWords(t) ==
  /\ pc[t] = "clearWords"
  /\ wordsTable' = EmptyMap
  /\ Goto(t, "done", local[t])
  /\ UNCHANGED <<contentsTable, noiseTable, completionsTable, noiseWords>>

-----------------------------------------------------------------------------
\* docContent(name)

\* `doc ${name} not found`
NotFoundMessage(name) == <<"doc ", name, " not found">>

\* docContent with a fault: a missing document reads as an empty one.
docContentOrEmpty(table, name) ==
  [err |-> "", message |-> <<>>,
   contents |-> IF name \in DOMAIN table THEN table[name] ELSE <<>>]

\* findOne({_id: name}): the contents of the document, or the error thrown.
docContent(table, name) ==
  IF name \in DOMAIN table
  THEN [err |-> "", message |-> <<>>, contents |-> table[name]]
  ELSE [err |-> "NOT_FOUND", message |-> NotFoundMessage(name), contents |-> <<>>]

DocContentStart(t, e, max, name) ==
  /\ CanStart(t, max)
  /\ Begin(t, "findContent", [NoLocal EXCEPT !.eng = e, !.op = "docContent", !.name = name])
  /\ UNCHANGED <<store, noiseWords>>

DocContentFind(t) ==
  /\ pc[t] = "findContent"
  /\ LET l == local[t]
         doc == docContent(contentsTable, l.name)
     IN  IF doc.err # ""
         THEN Goto(t, "failed", [l EXCEPT !.err = doc.err, !.message = doc.message])
         ELSE Goto(t, "done", [l EXCEPT !.out = doc.contents])
  /\ UNCHANGED <<store, noiseWords>>

-----------------------------------------------------------------------------
\* DocFinder.create(dbUrl): the process of engine e starts again on the store.

\* createCollection(NOISE_TABLE) leaves an existing collection as it is.
CreateStart(t, e, max) ==
  /\ CanStart(t, max)
  /\ Begin(t, "readNoiseWords", [NoLocal EXCEPT !.eng = e, !.op = "create"])
  /\ UNCHANGED <<store, noiseWords>>

\* finder.noiseWords = await finder._readNoiseWords()
ReadNoiseWords(t) ==
  /\ pc[t] = "readNoiseWords"
  /\ noiseWords' = [noiseWords EXCEPT ![local[t].eng] = noiseTable]
  /\ Goto(t, "done", local[t])
  /\ UNCHANGED store

-----------------------------------------------------------------------------
\* find(text)

\* QueryTerms with a fault: the terms are not de-duplicated.
QueryTermsRepeated(text, cache) == words(text, cache)

\* Array.from(new Set(await this.words(text)))
QueryTerms(text, cache) == Dedupe(words(text, cache))

\* The inner loop of _findDocs: each [name, idx] field of termIndex is pushed on
\* the list docs keeps for name, a new name being added at the end of the map.
RECURSIVE PushTermIndex(_, _)
PushTermIndex(docs, termIndex) ==
  IF termIndex = <<>> THEN docs
  ELSE LET name == termIndex[1].name
           at == {k \in DOMAIN docs : docs[k].name = name}
           next == IF at = {}
                   THEN Append(docs, [name |-> name, wordInfos |-> <<termIndex[1].info>>])
                   ELSE [docs EXCEPT ![Min(at)].wordInfos = Append(@, termIndex[1].info)]
       IN  PushTermIndex(next, Tail(termIndex))

\* wordInfos.reduce((acc, wordInfo) => acc + wordInfo[0], 0)
RECURSIVE Score(_)
Score(wordInfos) ==
  IF wordInfos = <<>> THEN 0 ELSE wordInfos[1][1] + Score(Tail(wordInfos))

Offsets(wordInfos) == [k \in 1..Len(wordInfos) |-> wordInfos[k][2]]

FindStart(t, e, max, text) ==
  /\ CanStart(t, max)
  /\ LET terms == QueryTerms(text, noiseWords[e])
         l == [NoLocal EXCEPT !.eng = e, !.op = "find", !.text = text, !.terms = terms]
     IN  IF terms = <<>>
         THEN Begin(t, "done", l)
         ELSE Begin(t, "findTerm", [l EXCEPT !.i = 1])
  /\ UNCHANGED <<store, noiseWords>>

\* _findDocs: one findOne per term; after the last term, the loop over docs begins.
FindTerm(t) ==
  /\ pc[t] = "findTerm"
  /\ LET l == local[t]
         docs == PushTermIndex(l.docs, findOne(wordsTable, l.terms[l.i], <<>>))
     IN  IF l.i < Len(l.terms)
         THEN Goto(t, "findTerm", [l EXCEPT !.docs = docs, !.i = l.i + 1])
         ELSE IF docs = <<>>
         THEN Goto(t, "done", [l EXCEPT !.docs = docs])
         ELSE Goto(t, "findDoc", [l EXCEPT !.docs = docs, !.i = 1])
  /\ UNCHANGED <<store, noiseWords>>

\* docContent(name) for the next document of docs, its Result pushed; after the
\* last document, results.sort(compareResults).  A missing document throws.
FindDoc(t) ==
  /\ pc[t] = "findDoc"
  /\ LET l == local[t]
         d == l.docs[l.i]
         doc == docContent(contentsTable, d.name)
     IN  IF doc.err # ""
         THEN Goto(t, "failed", [l EXCEPT !.err = doc.err, !.message = doc.message])
         ELSE LET r == result(d.name, Score(d.wordInfos), Offsets(d.wordInfos),
                              doc.contents)
                  results == Append(l.results, r)
              IN  IF l.i < Len(l.docs)
                  THEN Goto(t, "findDoc", [l EXCEPT !.results = results, !.i = l.i + 1])
                  ELSE Goto(t, "done", [l EXCEPT !.results = results,
                                                 !.out = SortResults(results)])
  /\ UNCHANGED <<store, noiseWords>>

-----------------------------------------------------------------------------
\* complete(text)

\* text.match(/[a-zA-Z]$/)
endsWithAlpha(text) == text # <<>> /\ IsAlpha(text[Len(text)])

\* text.split(/\s+/).slice(-1)[0]: what follows the last white space, which is
\* the empty string for an empty text and for a text that ends in white space.
RECURSIVE LastTokenStart(_, _)
LastTokenStart(text, i) ==
  IF i > 1 /\ ~IsSpace(text[i - 1]) THEN LastTokenStart(text, i - 1) ELSE i

LastToken(text) ==
  IF text = <<>> \/ IsSpace(text[Len(text)]) THEN <<>>
  ELSE SubSeq(text, LastTokenStart(text, Len(text)), Len(text))

\* Candidates with a fault: the completions are filtered but not sorted.
CandidatesUnsorted(completions, word) ==
  SelectSeq(completions, LAMBDA w : startsWith(w, word))

\* completions.sort(); completions.filter((w) => w.startsWith(word))
Candidates(completions, word) ==
  SelectSeq(SortWords(completions), LAMBDA w : startsWith(w, word))

CompleteStart(t, e, max, text) ==
  /\ CanStart(t, max)
  /\ LET l == [NoLocal EXCEPT !.eng = e, !.op = "complete", !.text = text]
     IN  IF ~endsWithAlpha(text)
         THEN Begin(t, "done", l)
         ELSE Begin(t, "findCompletions", [l EXCEPT !.word = normalize(LastToken(text))])
  /\ UNCHANGED <<store, noiseWords>>

\* CompletionsOf with a fault: the undefined key of an empty word is dropped from
\* the filter, which then matches a document of the collection.
CompletionsOfAnyDocument(table, word) ==
  IF word = <<>>
  THEN IF DOMAIN table = {} THEN <<>> ELSE table[CHOOSE c \in DOMAIN table : TRUE]
  ELSE findOne(table, word[1], <<>>)

\* findOne({_id: word[0]}), then doc ? doc.words : [].  For an empty word the
\* key is undefined, which the driver sends as null: no document matches.
CompletionsOf(table, word) ==
  IF word = <<>> THEN <<>> ELSE findOne(table, word[1], <<>>)

CompleteFind(t) ==
  /\ pc[t] = "findCompletions"
  /\ LET l == local[t]
     IN  Goto(t, "done", [l EXCEPT !.out = Candidates(CompletionsOf(completionsTable, l.word),
                                                      l.word)])
  /\ UNCHANGED <<store, noiseWords>>

-----------------------------------------------------------------------------
\* The call returns to its caller (or throws): the slot is free again.

Return(t) ==
  /\ pc[t] \in {"done", "failed"}
  /\ pc' = [pc EXCEPT ![t] = "idle"]
  /\ local' = [local EXCEPT ![t] = NoLocal]
  /\ lastCall' = [op |-> local[t].op, name |-> local[t].name, text |-> local[t].text,
                  eng |-> local[t].eng, err |-> local[t].err]
  /\ lastStore' = Snapshot
  /\ lastText' = IF local[t].op = "addContent" /\ pc[t] = "done"
                 THEN Put(lastText, local[t].name, local[t].text)
                 ELSE IF local[t].op = "clear" THEN EmptyMap ELSE lastText
  /\ UNCHANGED <<store, noiseWords, calls>>

-----------------------------------------------------------------------------
\* Specifications.

Start(t, e, max) ==
  \/ \E name \in Names, text \in DocTexts : AddContentStart(t, e, max, name, text)
  \/ \E text \in NoiseTexts : AddNoiseWordsStart(t, e, max, text)
  \/ ClearStart(t, e, max)
  \/ \E text \in Queries : FindStart(t, e, max, text)
  \/ \E text \in Partials : CompleteStart(t, e, max, text)
  \/ \E name \in Names : DocContentStart(t, e, max, name)

Step(t) ==
  \/ SaveContents(t) \/ SaveWord(t) \/ FindCompletion(t) \/ ReplaceCompletion(t)
  \/ InsertMany(t)
  \/ ClearCompletions(t) \/ ClearContents(t) \/ ClearNoise(t) \/ ClearWords(t)
  \/ FindTerm(t) \/ FindDoc(t)
  \/ CompleteFind(t)
  \/ DocContentFind(t)
  \/ Return(t)

\* One engine; its calls interleave at their awaits.
Next == \E t \in Tasks : Start(t, 1, MaxInterleavedCalls) \/ Step(t)
Spec == Init /\ [][Next]_vars

\* One engine, one call at a time: each call is awaited before the next starts.
SeqNext == Start(1, 1, MaxCalls) \/ CreateStart(1, 1, MaxCalls) \/ Step(1) \/ ReadNoiseWords(1)
SeqSpec == Init /\ [][SeqNext]_vars

\* Two engine processes on one store, one call at a time over both.
TwoEnginesNext ==
  \/ \E e \in Engines : Start(1, e, MaxCalls) \/ CreateStart(1, e, MaxCalls)
  \/ Step(1) \/ ReadNoiseWords(1)
TwoEnginesSpec == Init /\ [][TwoEnginesNext]_vars

\* Ingestion only: addContent and addNoiseWords calls interleave, nothing clears.
IngestStart(t, e, max) ==
  \/ \E name \in Names, text \in DocTexts : AddContentStart(t, e, max, name, text)
  \/ \E text \in NoiseTexts : AddNoiseWordsStart(t, e, max, text)

IngestStep(t) ==
  \/ SaveContents(t) \/ SaveWord(t) \/ FindCompletion(t) \/ ReplaceCompletion(t)
  \/ InsertMany(t)
  \/ Return(t)

IngestNext == \E t \in Tasks : IngestStart(t, 1, MaxInterleavedCalls) \/ IngestStep(t)
IngestSpec == Init /\ [][IngestNext]_vars

\* Indexing: addContent and addNoiseWords calls, one at a time, over texts that
\* include a word named like a property every JavaScript object inherits.
IndexStart(t, e, max) ==
  \/ \E name \in Names, text \in IndexTexts : AddContentStart(t, e, max, name, text)
  \/ \E text \in NoiseTexts : AddNoiseWordsStart(t, e, max, text)

IndexNext == IndexStart(1, 1, MaxCalls) \/ IngestStep(1)
IndexSpec == Init /\ [][IndexNext]_vars

-----------------------------------------------------------------------------
\* Vocabulary of the properties.

\* The normalized words of a text, noise or not.
NormalizedWords(text) == Range(words(text, {}))

\* The names with a field in the inverted-index entry of word w.
EntryNames(w) == {f.name : f \in Range(findOne(wordsTable, w, <<>>))}

\* The words of the completions entry of character c.
CompletionWords(table, c) == Range(findOne(table, c, <<>>))

Running(t, op) == pc[t] # "idle" /\ local[t].op = op
Returned(t, op) == pc[t] = "done" /\ local[t].op = op

\* The call in slot t repeats the call that returned last.
RepeatsLastCall(t) ==
  /\ lastCall.op = local[t].op
  /\ lastCall.eng = local[t].eng
  /\ lastCall.name = local[t].name
  /\ lastCall.text = local[t].text
  /\ lastCall.err = ""

-----------------------------------------------------------------------------
\* C1 (SeqSpec): addContent(name, text) run twice in a row leaves the contents, words and
\* completions collections exactly as the first call left them.
C1_AddContentIdempotent ==
  \A t \in Tasks :
    (Returned(t, "addContent") /\ RepeatsLastCall(t))
      => /\ contentsTable = lastStore.contents
         /\ wordsTable = lastStore.words
         /\ completionsTable = lastStore.completions

\* A repeated addContent has returned whose index holds two words with the same
\* first character, merged into a completions entry that held them already.
C1_Witness ==
  \E t \in Tasks :
    /\ Returned(t, "addContent") /\ RepeatsLastCall(t)
    /\ Len(local[t].index) >= 2
    /\ \E c \in DOMAIN completionsTable : Len(completionsTable[c]) >= 2

\* C2 (SeqSpec): when no call is in progress, name d is in the inverted-index entry of w
\* iff w is a non-noise normalized word of the content stored under d.
C2_IndexMatchesCurrentContent ==
  (\A t \in Tasks : pc[t] = "idle") =>
    \A d \in Names :
      /\ \A w \in DOMAIN wordsTable :
           d \in EntryNames(w) =>
             d \in DOMAIN contentsTable /\ w \in NormalizedWords(contentsTable[d])
      /\ d \in DOMAIN contentsTable =>
           \A w \in NormalizedWords(contentsTable[d]) :
             (\A e \in Engines : w \notin noiseWords[e]) => d \in EntryNames(w)

\* C3 (IngestSpec): once two addContent calls for different names, the only calls made so
\* far, have both returned, no word of either index is missing from the
\* completions or from the inverted index.
C3_ParallelIngestionKeepsAllWords ==
  \A t, u \in Tasks :
    (/\ t # u /\ calls = 2
     /\ Returned(t, "addContent") /\ Returned(u, "addContent")
     /\ local[t].name # local[u].name)
      => \A k \in DOMAIN local[t].index :
           LET w == local[t].index[k].word
           IN  /\ w \in CompletionWords(completionsTable, w[1])
               /\ local[t].name \in EntryNames(w)

\* C4 (IngestSpec): no step of an addContent or addNoiseWords call removes a word from the
\* completions entry of a character.
C4_CompletionsNeverShrink ==
  [][\A c \in DOMAIN completionsTable :
       CompletionWords(completionsTable, c) \subseteq CompletionWords(completionsTable', c)]_vars

\* C5 as claimed (SeqSpec): a word in the engine's noise set is never a term of a find
\* call and is never among the candidates complete has returned.
C5_NoiseNeverMatchedNorCompleted ==
  \A t \in Tasks :
    /\ Running(t, "find") => Range(local[t].terms) \cap noiseWords[local[t].eng] = {}
    /\ Returned(t, "complete") => Range(local[t].out) \cap noiseWords[local[t].eng] = {}

\* C5 as amended (SeqSpec): a word in the engine's noise set is never a term of a find
\* call, and no step adds it to a completions entry or to the inverted index;
\* what complete returns of it was in the completions before it became noise.
C5_NoiseNeverMatchedNorIndexed ==
  [][/\ \A t \in Tasks :
          (pc'[t] # "idle" /\ local'[t].op = "find")
            => Range(local'[t].terms) \cap noiseWords'[local'[t].eng] = {}
     /\ \A c \in DOMAIN completionsTable' :
          (CompletionWords(completionsTable', c) \ CompletionWords(completionsTable, c))
            \cap noiseWords[1] = {}
     /\ \A w \in DOMAIN wordsTable' :
          w \in noiseWords[1] => w \in DOMAIN wordsTable /\ wordsTable'[w] = wordsTable[w]
    ]_vars

\* A find whose query holds a noise word that the inverted index still holds
\* has returned results for its other term.
C5_Witness ==
  \E t \in Tasks :
    /\ Returned(t, "find")
    /\ NormalizedWords(local[t].text) \cap noiseWords[local[t].eng] \cap DOMAIN wordsTable # {}
    /\ local[t].out # <<>>

\* C6 (SeqSpec): addNoiseWords(text) repeated right after the same call leaves the noise
\* collection and the in-memory noise set as they were and issues no insertMany.
C6_AddNoiseWordsIdempotent ==
  \A t \in Tasks :
    (Running(t, "addNoiseWords") /\ RepeatsLastCall(t))
      => /\ pc[t] = "done"
         /\ local[t].a = <<>>
         /\ noiseTable = lastStore.noise
         /\ noiseWords = lastStore.noiseWords

\* The repeated call has returned and the words of its text are persisted.
C6_Witness ==
  \E t \in Tasks :
    /\ Returned(t, "addNoiseWords") /\ RepeatsLastCall(t)
    /\ Cardinality(NormalizedWords(local[t].text)) >= 2
    /\ NormalizedWords(local[t].text) \subseteq noiseTable

\* C7 (SeqSpec): when clear() has returned the four collections are empty, and an
\* addNoiseWords(text) that follows it persists every normalized word of text.
C7_ClearResetsEngine ==
  \A t \in Tasks :
    /\ Returned(t, "clear") =>
         /\ contentsTable = EmptyMap /\ wordsTable = EmptyMap
         /\ noiseTable = {} /\ completionsTable = EmptyMap
    /\ (Returned(t, "addNoiseWords") /\ lastCall.op = "clear") =>
         NormalizedWords(local[t].text) \subseteq noiseTable

\* C8 (SeqSpec): the list find returns is strictly ordered by descending score, then
\* ascending name, and holds each matching document once.
C8_ResultsTotallyOrdered ==
  \A t \in Tasks :
    Returned(t, "find") =>
      LET out == local[t].out
      IN  /\ \A k \in 1..(Len(out) - 1) :
               \/ out[k].score > out[k + 1].score
               \/ /\ out[k].score = out[k + 1].score
                  /\ NameRank(out[k].name) < NameRank(out[k + 1].name)
          /\ \A j \in DOMAIN local[t].docs :
               Cardinality({k \in DOMAIN out : out[k].name = local[t].docs[j].name}) = 1

\* find has returned two documents with equal scores in another order than it
\* read them, or two documents with different scores.
C8_Witness ==
  \E t \in Tasks :
    /\ Returned(t, "find")
    /\ Len(local[t].out) = 2
    /\ local[t].out # local[t].results
    /\ local[t].out[1].score = local[t].out[2].score

\* The occurrence count stored for word w and document name (0 when absent).
StoredCount(w, name) ==
  LET fields == {f \in Range(findOne(wordsTable, w, <<>>)) : f.name = name}
  IN  IF fields = {} THEN 0 ELSE (CHOOSE f \in fields : TRUE).info[1]

RECURSIVE SumStoredCounts(_, _)
SumStoredCounts(T, name) ==
  IF T = {} THEN 0
  ELSE LET w == CHOOSE x \in T : TRUE
       IN  StoredCount(w, name) + SumStoredCounts(T \ {w}, name)

\* C9 (SeqSpec): each score is the sum of the stored counts over the distinct non-noise
\* terms of the query, and the results are the documents of those terms' entries.
C9_ScoreIsSumOverDistinctTerms ==
  \A t \in Tasks :
    Returned(t, "find") =>
      LET T == NormalizedWords(local[t].text) \ noiseWords[local[t].eng]
          out == local[t].out
      IN  /\ {out[k].name : k \in DOMAIN out} = UNION {EntryNames(w) : w \in T}
          /\ \A k \in DOMAIN out : out[k].score = SumStoredCounts(T, out[k].name)

\* find has returned a result for a query that repeats a term the document holds.
C9_Witness ==
  \E t \in Tasks :
    /\ Returned(t, "find")
    /\ Len(words(local[t].text, {})) > Cardinality(NormalizedWords(local[t].text))
    /\ Len(local[t].terms) = 2
    /\ \E k \in DOMAIN local[t].out : Len(local[t].docs[k].wordInfos) = 2

\* Offset of the first token of content that normalizes to w.
FirstOffset(content, w) ==
  Min({p[2] : p \in {q \in Range(_wordsLow(content, {})) : q[1] = w}})

\* Start offset of the line that holds offset o, and the line starting at s.
LineStart(content, o) == Max({s \in 0..o : s = 0 \/ content[s] = "\n"})
LineFrom(content, s) ==
  SubSeq(content, s + 1, Min({j \in (s + 1)..Len(content) : content[j] = "\n"}))

\* C10 (SeqSpec): the lines of each result are lines of the document's current content,
\* in ascending position without repetition, each holding the first occurrence
\* in that content of one of the query's terms.
C10_LinesHoldFirstOccurrences ==
  \A t \in Tasks :
    Returned(t, "find") =>
      \A k \in DOMAIN local[t].out :
        LET r == local[t].out[k]
            content == contentsTable[r.name]
            matched == Range(local[t].terms) \cap NormalizedWords(content)
            good == {LineStart(content, FirstOffset(content, w)) : w \in matched}
        IN  \E S \in SUBSET good :
              LET order == SortedNumbers(S)
              IN  r.lines = [j \in 1..Len(order) |-> LineFrom(content, order[j])]

-----------------------------------------------------------------------------
\* The words complete(text) owes its caller: those of the completions entry of
\* the first character of the normalized last token that have this token as a
\* prefix.
OwedCompletions(text) ==
  LET word == normalize(LastToken(text))
  IN  IF word = <<>> THEN {}
      ELSE {w \in CompletionWords(completionsTable, word[1]) : startsWith(w, word)}

StrictlyAscending(ws) ==
  \A i \in 1..(Len(ws) - 1) : CompareStrings(ws[i], ws[i + 1]) < 0

CompletePrefixLaw(t) ==
  LET word == normalize(LastToken(local[t].text))
      out == local[t].out
  IN  /\ \A i \in 1..Len(out) : startsWith(out[i], word)
      /\ StrictlyAscending(out)
      /\ OwedCompletions(local[t].text) \subseteq Range(out)

\* C11 (SeqSpec), as stated: for every text, the words complete(text) returns all start with
\* the normalized last token of text, are in strictly ascending order, and include every word
\* of the completions entry of the token's first character that starts with the token.
C11_CompleteOfEveryText ==
  \A t \in Tasks : Returned(t, "complete") => CompletePrefixLaw(t)

\* C11 (SeqSpec), amended: the same for every text whose last character is alphabetic.
C11_CompleteOfAlphabeticText ==
  \A t \in Tasks :
    (Returned(t, "complete") /\ endsWithAlpha(local[t].text)) => CompletePrefixLaw(t)

\* complete has returned two words of an entry that the store holds in another
\* order.
C11_Witness ==
  \E t \in Tasks :
    /\ Returned(t, "complete") /\ endsWithAlpha(local[t].text)
    /\ Len(local[t].out) >= 2
    /\ CompletionsOf(completionsTable, local[t].word) # local[t].out

\* C12 (SeqSpec): complete(text) never fails; it returns the empty list when the last
\* character of text is not alphabetic (the empty text included), when the last token
\* normalizes to the empty word, and when the completions entry of the token's first
\* character is missing or empty.
C12_CompleteReturnsEmptyList ==
  \A t \in Tasks :
    Running(t, "complete")
      => /\ pc[t] # "failed"
         /\ pc[t] = "done"
              => LET word == normalize(LastToken(local[t].text))
                 IN  (\/ ~endsWithAlpha(local[t].text)
                      \/ word = <<>>
                      \/ findOne(completionsTable, word[1], <<>>) = <<>>)
                       => local[t].out = <<>>

\* complete has returned the empty list for a text that ends in a letter and
\* whose last token normalizes to the empty word, over a store with completions.
C12_Witness ==
  \E t \in Tasks :
    /\ Returned(t, "complete")
    /\ endsWithAlpha(local[t].text)
    /\ normalize(LastToken(local[t].text)) = <<>>
    /\ DOMAIN completionsTable # {}
    /\ local[t].out = <<>>

\* text itself when its last character is a newline, else text and one newline.
WithFinalNewline(text) ==
  IF text # <<>> /\ text[Len(text)] = "\n" THEN text ELSE text \o <<"\n">>

\* C13 (SeqSpec): docContent(name), called after addContent(name, text) has returned with no
\* later addContent for name and no clear, succeeds and returns text itself when text ends with
\* a newline and text followed by exactly one newline otherwise; after a second addContent for
\* name it is the second text that is returned.
C13_DocContentReturnsIngestedText ==
  \A t \in Tasks :
    (Running(t, "docContent") /\ local[t].name \in DOMAIN lastText)
      => /\ pc[t] # "failed"
         /\ pc[t] = "done" => local[t].out = WithFinalNewline(lastText[local[t].name])

\* docContent has returned the text of a document that was ingested without a
\* final newline, another call having returned in between.
C13_Witness ==
  \E t \in Tasks :
    /\ Returned(t, "docContent")
    /\ local[t].name \in DOMAIN lastText
    /\ lastText[local[t].name] # WithFinalNewline(lastText[local[t].name])
    /\ ~(lastCall.op = "addContent" /\ lastCall.name = local[t].name)

\* C14 (SeqSpec): docContent(name) for a name without content fails with code NOT_FOUND and a
\* message that holds name; failing or not, it leaves the four collections and the in-memory
\* noise sets as they were when it was called.
C14_DocContentNotFoundAndFrame ==
  \A t \in Tasks :
    Running(t, "docContent")
      => /\ contentsTable = lastStore.contents
         /\ wordsTable = lastStore.words
         /\ noiseTable = lastStore.noise
         /\ completionsTable = lastStore.completions
         /\ noiseWords = lastStore.noiseWords
         /\ local[t].name \notin DOMAIN contentsTable => pc[t] # "done"
         /\ pc[t] = "failed"
              => /\ local[t].name \notin DOMAIN contentsTable
                 /\ local[t].err = "NOT_FOUND"
                 /\ \E i \in DOMAIN local[t].message : local[t].message[i] = local[t].name

\* docContent has failed for a name without content while the store holds
\* another document, index entries and noise words.
C14_Witness ==
  \E t \in Tasks :
    /\ pc[t] = "failed" /\ local[t].op = "docContent"
    /\ DOMAIN contentsTable # {}
    /\ DOMAIN wordsTable # {}
    /\ noiseTable # {}

\* C15 (Spec): in every reachable state, between the store operations of calls in progress
\* included, every document name in an entry of the inverted index has content in the contents
\* collection, and no find call fails with NOT_FOUND.
C15_IndexedNamesHaveContent ==
  /\ \A w \in DOMAIN wordsTable : EntryNames(w) \subseteq DOMAIN contentsTable
  /\ \A t \in Tasks : ~(pc[t] = "failed" /\ local[t].op = "find")

\* What find(text) returns when all its reads see one state of the words and
\* contents collections in which every indexed name has content.
RECURSIVE FindDocsIn(_, _, _)
FindDocsIn(wTable, terms, docs) ==
  IF terms = <<>> THEN docs
  ELSE FindDocsIn(wTable, Tail(terms), PushTermIndex(docs, findOne(wTable, Head(terms), <<>>)))

FindIn(wTable, cTable, text, cache) ==
  LET docs == FindDocsIn(wTable, QueryTerms(text, cache), <<>>)
  IN  SortResults([k \in 1..Len(docs) |->
                     result(docs[k].name, Score(docs[k].wordInfos), Offsets(docs[k].wordInfos),
                            cTable[docs[k].name])])

\* C16 (Spec): a find that overlaps an addContent returns the list it would return in the state
\* before the addContent started or in the state after it finished.  Stated for the first two
\* calls of a behaviour: before is the empty store, after is the store once both have ended.
C16_FindSeesSnapshot ==
  \A t, u \in Tasks :
    (calls = 2 /\ Returned(t, "find") /\ Returned(u, "addContent"))
      => \/ local[t].out = FindIn(EmptyMap, EmptyMap, local[t].text, noiseWords[local[t].eng])
         \/ local[t].out = FindIn(wordsTable, contentsTable, local[t].text,
                                  noiseWords[local[t].eng])

\* The inverted-index entry of word holds info as the field of name.
EntryHolds(word, name, info) ==
  \E f \in Range(findOne(wordsTable, word, <<>>)) : f.name = name /\ f.info = info

\* No addContent for the document of the call in slot t has run but this call.
OnlyIngestionOfItsDocument(t) ==
  /\ local[t].name \notin DOMAIN lastText
  /\ \A v \in Tasks \ {t} : Running(v, "addContent") => local[v].name # local[t].name

\* C17 (IngestSpec): when two addContent calls for different documents have both ended, however
\* their store operations interleaved, the entry of every word of a document that no other call
\* has ingested holds that document's (count, first offset): no update is lost.
C17_NoLostWordUpdate ==
  \A t, u \in Tasks :
    (/\ Returned(t, "addContent") /\ Returned(u, "addContent")
     /\ local[t].name # local[u].name
     /\ OnlyIngestionOfItsDocument(t))
      => \A k \in DOMAIN local[t].index :
           EntryHolds(local[t].index[k].word, local[t].name, local[t].index[k].info)

\* Two addContent calls for different documents, neither returned before the
\* other ended, share a word with different infos; its entry holds two fields.
C17_Witness ==
  \E t, u \in Tasks :
    /\ Returned(t, "addContent") /\ Returned(u, "addContent")
    /\ local[t].name # local[u].name
    /\ OnlyIngestionOfItsDocument(t) /\ OnlyIngestionOfItsDocument(u)
    /\ \E k \in DOMAIN local[t].index, j \in DOMAIN local[u].index :
         /\ local[t].index[k].word = local[u].index[j].word
         /\ local[t].index[k].info # local[u].index[j].info
         /\ Len(wordsTable[local[t].index[k].word]) = 2

\* C18 (SeqSpec): whenever no call of the engine is in progress, its in-memory noise set equals
\* the set of keys of the noise collection.
C18_CacheEqualsNoiseCollection ==
  (\A t \in Tasks : pc[t] = "idle") => noiseWords[1] = noiseTable

\* C19 (TwoEnginesSpec): with two engine processes on one store, an addNoiseWords call of an
\* engine whose in-memory set held only persisted words when the call started does not fail,
\* inserts no word that was persisted already, and leaves every normalized word of its text
\* both persisted and in the caller's in-memory set.
C19_AddNoiseWordsAcrossEngines ==
  \A t \in Tasks :
    (Running(t, "addNoiseWords") /\ lastStore.noiseWords[local[t].eng] \subseteq lastStore.noise)
      => /\ pc[t] # "failed"
         /\ Range(local[t].a) \cap lastStore.noise = {}
         /\ pc[t] = "done"
              => /\ NormalizedWords(local[t].text) \subseteq noiseTable
                 /\ NormalizedWords(local[t].text) \subseteq noiseWords[local[t].eng]

\* C20 (SeqSpec): addNoiseWords leaves the contents, words and completions collections as they
\* were when it was called, index entries of the words it registers included; an addContent
\* call that runs afterwards puts no registered word in its index.
C20_AddNoiseWordsFrame ==
  \A t \in Tasks :
    /\ Running(t, "addNoiseWords")
         => /\ contentsTable = lastStore.contents
            /\ wordsTable = lastStore.words
            /\ completionsTable = lastStore.completions
    /\ Running(t, "addContent")
         => \A k \in DOMAIN local[t].index :
              local[t].index[k].word \notin noiseWords[local[t].eng]

\* addNoiseWords has returned after registering a word that the inverted index
\* and a completions entry hold.
C20_Witness ==
  \E t \in Tasks :
    /\ Returned(t, "addNoiseWords")
    /\ \E w \in Range(local[t].a) :
         /\ w \in DOMAIN wordsTable
         /\ w \in CompletionWords(completionsTable, w[1])
         /\ w \in noiseWords[local[t].eng]

\* The whitespace-delimited tokens of content, by the position (1-based) of their
\* first character, and those that normalize to w.
TokenStarts(content) ==
  {i \in 1..Len(content) : ~IsSpace(content[i]) /\ (i = 1 \/ IsSpace(content[i - 1]))}
TokenAt(content, i) == SubSeq(content, i, MatchEnd(content, i))
TokensOf(content, w) == {i \in TokenStarts(content) : normalize(TokenAt(content, i)) = w}

\* The fields document name has in the entry of w, in a words collection.
FieldsOf(table, w, name) == {f \in Range(findOne(table, w, <<>>)) : f.name = name}

\* C21 (IndexSpec): once addContent(name, text) has ended, the entry of every non-noise
\* normalized word w of the stored text maps name to (count, firstOffset), count being the
\* number of tokens of the text that normalize to w and firstOffset the offset of the first
\* of them; the empty word has no entry and the call has put name in no noise word's entry.
C21_IndexHoldsCountAndFirstOffset ==
  \A t \in Tasks :
    (Running(t, "addContent") /\ pc[t] \in {"done", "failed"})
      => LET content == local[t].contentText
             name == local[t].name
         IN  /\ <<>> \notin DOMAIN wordsTable
             /\ \A i \in TokenStarts(content) :
                  LET w == normalize(TokenAt(content, i))
                  IN  IF w = <<>> THEN TRUE
                      ELSE IF w \in noiseWords[local[t].eng]
                      THEN FieldsOf(wordsTable, w, name) = FieldsOf(lastStore.words, w, name)
                      ELSE EntryHolds(w, name, <<Cardinality(TokensOf(content, w)),
                                                 Min(TokensOf(content, w)) - 1>>)
====
